---- MODULE Spec2Model ----
(***************************************************************************)
(* Countdown timer on an STM32F411 (src/main.rs): a foreground loop that   *)
(* renders ELAPSED/SET and runs the expiry sequence, and three interrupt   *)
(* handlers (TIM2 tick, EXTI0 button, TIM3 ADC sampler) that mutate the    *)
(* two shared u16 cells.  Every `free(|cs| ...)` block is one atomic step: *)
(* interrupts are masked inside it.  A handler can run between any two     *)
(* foreground steps once its interrupt line is unmasked.                   *)
(* SpecNvic refines the handlers and the reload into their reads and       *)
(* writes, with NVIC pending bits, priority dispatch and PRIMASK.           *)
(***************************************************************************)
EXTENDS Integers, Sequences, FiniteSets, TLC

VARIABLES
    SET,              \* static SET: Mutex<Cell<u16>>
    ELAPSED,          \* static ELAPSED: Mutex<Cell<u16>>
    pc,               \* position of main()
    elapsed,          \* main's local `elapsed` (render loop)
    set,              \* main's local `set`
    buffer,           \* main's local ArrayString<[u8; 64]>, a sequence of characters
    i,                \* iterations of `for _ in 0..11` already run
    yellow,           \* LED on PA1: TRUE = high
    unmasked,         \* interrupt lines unmasked in the NVIC
    halted,           \* "run", or where panic_halt spins: "main" / "irq"
    overflow_checks,  \* build profile: TRUE = arithmetic overflow panics, FALSE = wraps
    burst,            \* handler runs since the last foreground step
    run,              \* history: TIM2 runs since ELAPSED was loaded from SET, -1 = none
    held,             \* history: <<ELAPSED, SET>> pairs held since `elapsed` was read
    toggles,          \* history: LED toggles since the last reload
    fn_op,            \* function applied by the function-level specification
    fn_in,            \* its argument
    fn_out,           \* its result
    pending,          \* NVIC pending bits (instruction-level specification)
    active,           \* handlers in service, innermost last
    primask,          \* TRUE = interrupts masked by interrupt::free
    hpc,              \* position of each handler
    local,            \* each handler's temporary: the value it read
    cs_pc,            \* main's open critical section, "none" outside
    fg_tmp,           \* value main read inside its critical section
    grouped           \* TRUE = only the top 4 priority bits are implemented

vars == <<SET, ELAPSED, pc, elapsed, set, buffer, i, yellow, unmasked, halted,
          overflow_checks, burst, run, held, toggles, fn_op, fn_in, fn_out,
          pending, active, primask, hpc, local, cs_pc, fg_tmp, grouped>>

fnvars == <<fn_op, fn_in, fn_out>>

nvicvars == <<pending, active, primask, hpc, local, cs_pc, fg_tmp, grouped>>

Lines == {"TIM2", "EXTI0", "TIM3"}

(***************************** bounds **************************************)
\* Largest raw ADC sample the sampler draws in the interleaving model.
MaxSample == 3
\* Most handler runs between two consecutive foreground steps (the handlers
\* fire at 1 Hz and 10 Hz, a foreground step is far shorter).
MaxBurst == 1
\* Most TIM2 runs below zero the interleaving model follows after a wrap.
MaxUnderflow == 3

(*************************** program constants *****************************)
U16Max == 65535
U8Max == 255
DefaultSet == 180
BlinkCount == 11
BufferCap == 64
AdcMax == 63

U16(n) == n % (U16Max + 1)
U8(n) == n % (U8Max + 1)

(*************************** pure helpers **********************************)
\* fn time_digits(time: u16) -> (u8, u8, u8)
time_digits(time) ==
    LET hours == time \div 3600
        minutes == time \div 60
        seconds == time % 60
    IN  <<U8(hours), U8(minutes), U8(seconds)>>

\* variant of Quantize that forgets the factor of 60
QuantizeNoScale(sample) == U16(sample \div 2)

\* variant of Quantize that forgets the shift
QuantizeNoShift(sample) == U16(sample * 60)

\* (sample >> 1) * 60 on u16
Quantize(sample) == U16((sample \div 2) * 60)

\* the largest value the sampler can store in SET
MaxTarget == Quantize(AdcMax)

Digits == <<"0", "1", "2", "3", "4", "5", "6", "7", "8", "9">>
Digit(d) == Digits[d + 1]

\* {:02} applied to a u8: zero-padded to a minimum width of two
Fmt02(n) ==
    IF n < 10 THEN <<"0", Digit(n)>>
    ELSE IF n < 100 THEN <<Digit(n \div 10), Digit(n % 10)>>
    ELSE <<Digit(n \div 100), Digit((n \div 10) % 10), Digit(n % 10)>>

Spaces(n) == [j \in 1..n |-> " "]

\* the pieces format_args! hands to the writer, in order
FormatPieces(e, s) ==
    <<Spaces(4), Fmt02(e[1]), <<":">>, Fmt02(e[2]), <<":">>, Fmt02(e[3]),
      Spaces(40), Fmt02(s[1]), <<":">>, Fmt02(s[2]), <<":">>, Fmt02(s[3]),
      Spaces(4)>>

\* fmt::write into an ArrayString: each piece is pushed whole or the write fails
RECURSIVE FmtWrite(_, _, _)
FmtWrite(buf, pieces, k) ==
    IF k > Len(pieces) THEN [buf |-> buf, ok |-> TRUE]
    ELSE IF Len(buf) + Len(pieces[k]) > BufferCap THEN [buf |-> buf, ok |-> FALSE]
    ELSE FmtWrite(buf \o pieces[k], pieces, k + 1)

\* fn format_time(buf, elapsed, set), before the unwrap
format_time(e, s) == FmtWrite(<<>>, FormatPieces(time_digits(e), time_digits(s)), 1)

(****************************** initial state ******************************)
\* main() up to line 165: statics hold 0, peripherals are stored, nothing is unmasked
Boot ==
    /\ SET = 0
    /\ ELAPSED = 0
    /\ pc = "unmask_tim2"
    /\ elapsed = 0
    /\ set = 0
    /\ buffer = <<>>
    /\ i = 0
    /\ yellow = FALSE
    /\ unmasked = {}
    /\ halted = "run"
    /\ overflow_checks \in BOOLEAN
    /\ burst = 0
    /\ run = -1
    /\ held = {}
    /\ toggles = 0

\* no interrupt pending or in service, interrupts enabled
NvicReset ==
    /\ pending = {}
    /\ active = <<>>
    /\ primask = FALSE
    /\ hpc = [l \in Lines |-> "idle"]
    /\ local = [l \in Lines |-> 0]
    /\ cs_pc = "none"
    /\ fg_tmp = 0

Init ==
    /\ Boot
    /\ fn_op = "none"
    /\ fn_in = 0
    /\ fn_out = <<>>
    /\ NvicReset
    /\ grouped = TRUE

(****************************** foreground *********************************)
\* a foreground step runs only while main() has not panicked
Step(from, to) ==
    /\ halted = "run"
    /\ pc = from
    /\ pc' = to
    /\ burst' = 0

\* nvic.set_priority(TIM2, 1); NVIC::unmask(TIM2)
UnmaskTIM2 ==
    /\ Step("unmask_tim2", "unmask_exti0")
    /\ unmasked' = unmasked \cup {"TIM2"}
    /\ UNCHANGED <<SET, ELAPSED, elapsed, set, buffer, i, yellow, halted,
                   overflow_checks, run, held, toggles, fnvars, nvicvars>>

\* nvic.set_priority(EXTI0, 3); NVIC::unmask(EXTI0)
UnmaskEXTI0 ==
    /\ Step("unmask_exti0", "unmask_tim3")
    /\ unmasked' = unmasked \cup {"EXTI0"}
    /\ UNCHANGED <<SET, ELAPSED, elapsed, set, buffer, i, yellow, halted,
                   overflow_checks, run, held, toggles, fnvars, nvicvars>>

\* nvic.set_priority(TIM3, 2); NVIC::unmask(TIM3).  The NVIC::unpend calls that
\* follow change no variable: pending bits are not part of the state, a handler
\* simply runs or does not.
UnmaskTIM3 ==
    /\ Step("unmask_tim3", "set_default")
    /\ unmasked' = unmasked \cup {"TIM3"}
    /\ UNCHANGED <<SET, ELAPSED, elapsed, set, buffer, i, yellow, halted,
                   overflow_checks, run, held, toggles, fnvars, nvicvars>>

\* free(|cs| SET.borrow(cs).set(180))
SetDefault ==
    /\ Step("set_default", "reload")
    /\ SET' = DefaultSet
    /\ run' = -1
    /\ UNCHANGED <<ELAPSED, elapsed, set, buffer, i, yellow, unmasked, halted,
                   overflow_checks, held, toggles, fnvars, nvicvars>>

\* variant of Reload that stores the build-time default
ReloadDefault ==
    /\ Step("reload", "while_check")
    /\ ELAPSED' = DefaultSet
    /\ run' = 0
    /\ toggles' = 0
    /\ UNCHANGED <<SET, elapsed, set, buffer, i, yellow, unmasked, halted,
                   overflow_checks, held, fnvars, nvicvars>>

\* free(|cs| ELAPSED.borrow(cs).set(SET.borrow(cs).get()))
Reload ==
    /\ Step("reload", "while_check")
    /\ ELAPSED' = SET
    /\ run' = 0
    /\ toggles' = 0
    /\ UNCHANGED <<SET, elapsed, set, buffer, i, yellow, unmasked, halted,
                   overflow_checks, held, fnvars, nvicvars>>

\* while free(|cs| ELAPSED.borrow(cs).get()) > 0
WhileCheck ==
    /\ Step("while_check", IF ELAPSED > 0 THEN "read_elapsed" ELSE "final_read_set")
    /\ UNCHANGED <<SET, ELAPSED, elapsed, set, buffer, i, yellow, unmasked, halted,
                   overflow_checks, run, held, toggles, fnvars, nvicvars>>

\* let mut buffer = ArrayString::new(); let elapsed = free(|cs| ELAPSED.borrow(cs).get())
ReadElapsed ==
    /\ Step("read_elapsed", "read_set")
    /\ buffer' = <<>>
    /\ elapsed' = ELAPSED
    /\ held' = {<<ELAPSED, SET>>}
    /\ UNCHANGED <<SET, ELAPSED, set, i, yellow, unmasked, halted,
                   overflow_checks, run, toggles, fnvars, nvicvars>>

\* let set = free(|cs| SET.borrow(cs).get())
ReadSet ==
    /\ Step("read_set", "format")
    /\ set' = SET
    /\ UNCHANGED <<SET, ELAPSED, elapsed, buffer, i, yellow, unmasked, halted,
                   overflow_checks, run, held, toggles, fnvars, nvicvars>>

\* format_time(&mut buffer, e, s): fmt::write(...).unwrap() panics when the text
\* does not fit the buffer
FormatInto(e, s, from, to) ==
    LET r == format_time(e, s)
    IN  /\ halted = "run"
        /\ pc = from
        /\ burst' = 0
        /\ buffer' = r.buf
        /\ IF r.ok THEN pc' = to /\ halted' = halted
                   ELSE pc' = pc /\ halted' = "main"

\* format_time(&mut buffer, elapsed, set) in the render loop
FormatFrame ==
    /\ FormatInto(elapsed, set, "format", "write")
    /\ elapsed' = 0
    /\ set' = 0
    /\ held' = {}
    /\ UNCHANGED <<SET, ELAPSED, i, yellow, unmasked, overflow_checks, run,
                   toggles, fnvars, nvicvars>>

\* variant of WriteTo that drops the Result instead of unwrapping it
WriteToIgnoringError(ok, from, to) ==
    /\ halted = "run"
    /\ pc = from
    /\ burst' = 0
    /\ pc' = to
    /\ halted' = halted
    /\ buffer' = <<>>

\* disp.write_str(buffer.as_str()).unwrap(): the bus write succeeds or the
\* unwrap panics
WriteTo(ok, from, to) ==
    /\ halted = "run"
    /\ pc = from
    /\ burst' = 0
    /\ IF ok THEN pc' = to /\ halted' = halted /\ buffer' = <<>>
             ELSE pc' = pc /\ halted' = "main" /\ buffer' = buffer

\* disp.write_str(...) in the render loop, then back to the loop condition
WriteFrame(ok) ==
    /\ WriteTo(ok, "write", "while_check")
    /\ UNCHANGED <<SET, ELAPSED, elapsed, set, i, yellow, unmasked,
                   overflow_checks, run, held, toggles, fnvars, nvicvars>>

\* after the loop: let mut buffer = ...; let zero = 0; let set = free(|cs| SET...get())
FinalReadSet ==
    /\ Step("final_read_set", "final_format")
    /\ buffer' = <<>>
    /\ elapsed' = 0
    /\ set' = SET
    /\ UNCHANGED <<SET, ELAPSED, i, yellow, unmasked, halted,
                   overflow_checks, run, held, toggles, fnvars, nvicvars>>

\* variant of FinalFormat that formats the shared ELAPSED instead of `zero`
FinalFormatShared ==
    /\ FormatInto(ELAPSED, set, "final_format", "final_write")
    /\ set' = 0
    /\ UNCHANGED <<SET, ELAPSED, elapsed, i, yellow, unmasked, overflow_checks,
                   run, held, toggles, fnvars, nvicvars>>

\* format_time(&mut buffer, zero, set)
FinalFormat ==
    /\ FormatInto(0, set, "final_format", "final_write")
    /\ set' = 0
    /\ UNCHANGED <<SET, ELAPSED, elapsed, i, yellow, unmasked, overflow_checks,
                   run, held, toggles, fnvars, nvicvars>>

\* disp.write_str(...) of the final frame, then into the blink loop
FinalWrite(ok) ==
    /\ WriteTo(ok, "final_write", "blink")
    /\ i' = 0
    /\ UNCHANGED <<SET, ELAPSED, elapsed, set, yellow, unmasked,
                   overflow_checks, run, held, toggles, fnvars, nvicvars>>

\* one iteration of for _ in 0..11 { yellow.toggle(); delay.delay_ms(100) }
BlinkToggle ==
    /\ i < BlinkCount
    /\ Step("blink", IF i + 1 < BlinkCount THEN "blink" ELSE "hold")
    /\ yellow' = ~yellow
    /\ i' = i + 1
    /\ toggles' = toggles + 1
    /\ UNCHANGED <<SET, ELAPSED, elapsed, set, buffer, unmasked, halted,
                   overflow_checks, run, held, fnvars, nvicvars>>

\* delay.delay_ms(3000)
Hold ==
    /\ Step("hold", "final_toggle")
    /\ UNCHANGED <<SET, ELAPSED, elapsed, set, buffer, i, yellow, unmasked, halted,
                   overflow_checks, run, held, toggles, fnvars, nvicvars>>

\* variant of FinalToggle that leaves the LED as the hold left it
FinalToggleMissing ==
    /\ Step("final_toggle", "reload")
    /\ toggles' = toggles + 1
    /\ i' = 0
    /\ UNCHANGED <<SET, ELAPSED, elapsed, set, buffer, yellow, unmasked, halted,
                   overflow_checks, run, held, fnvars, nvicvars>>

\* yellow.toggle(), then the outer loop starts over
FinalToggle ==
    /\ Step("final_toggle", "reload")
    /\ yellow' = ~yellow
    /\ toggles' = toggles + 1
    /\ i' = 0
    /\ UNCHANGED <<SET, ELAPSED, elapsed, set, buffer, unmasked, halted,
                   overflow_checks, run, held, fnvars, nvicvars>>

\* main() lines 165-186: unmask the three lines, store the default target
Startup ==
    \/ UnmaskTIM2
    \/ UnmaskEXTI0
    \/ UnmaskTIM3
    \/ SetDefault

\* the `while ELAPSED > 0` loop, with the display answering from `results`
RenderLoop(results) ==
    \/ WhileCheck
    \/ ReadElapsed
    \/ ReadSet
    \/ FormatFrame
    \/ \E ok \in results : WriteFrame(ok)

\* lines 217-240: final frame, blink, hold, last toggle
Finale(results) ==
    \/ FinalReadSet
    \/ FinalFormat
    \/ \E ok \in results : FinalWrite(ok)
    \/ BlinkToggle
    \/ Hold
    \/ FinalToggle

\* main(), with the display answering from `results`
Main(results) ==
    \/ Startup
    \/ Reload
    \/ RenderLoop(results)
    \/ Finale(results)

(****************************** interrupts *********************************)
\* a handler runs when its line is unmasked and no handler has panicked
\* inside its critical section; at most `limit` handler runs fit between two
\* foreground steps
Fires(line, limit) ==
    /\ line \in unmasked
    /\ halted # "irq"
    /\ burst < limit
    /\ burst' = burst + 1

\* pairs the shared cells hold between main's two reads
HeldAfter(e, s) == IF pc = "read_set" THEN held \cup {<<e, s>>} ELSE held

\* variant of TickElapsed that drops two seconds per tick
TickElapsedByTwo(e) == U16(e - 2)

\* ELAPSED.borrow(cs).set(ELAPSED.borrow(cs).get() - 1)
TickElapsed(e) == U16(e - 1)

\* fn TIM2(): the subtraction panics on 0 when overflow checks are on.
\* `depth` bounds how far below zero a wrapped ELAPSED is followed.
TIM2(depth, limit) ==
    /\ Fires("TIM2", limit)
    /\ ELAPSED <= MaxTarget \/ ELAPSED > U16Max + 1 - depth
    /\ IF ELAPSED = 0 /\ overflow_checks
       THEN /\ halted' = "irq"
            /\ UNCHANGED <<ELAPSED, run, held>>
       ELSE /\ ELAPSED' = TickElapsed(ELAPSED)
            /\ halted' = halted
            /\ run' = IF run >= 0 /\ run < SET THEN run + 1 ELSE -1
            /\ held' = HeldAfter(ELAPSED', SET)
    /\ UNCHANGED <<SET, pc, elapsed, set, buffer, i, yellow, unmasked,
                   overflow_checks, toggles, fnvars, nvicvars>>

\* variant of ResetElapsed that reloads the build-time default
ResetElapsedDefault(e, s) == DefaultSet

\* let timeset = SET.borrow(cs).get(); ELAPSED.borrow(cs).replace(timeset)
ResetElapsed(e, s) == s

\* fn EXTI0(): BUTTON and EXTI were stored before the line was unmasked, so
\* the `if let` always matches
EXTI0(limit) ==
    /\ Fires("EXTI0", limit)
    /\ ELAPSED' = ResetElapsed(ELAPSED, SET)
    /\ run' = 0
    /\ held' = HeldAfter(ELAPSED', SET)
    /\ UNCHANGED <<SET, pc, elapsed, set, buffer, i, yellow, unmasked, halted,
                   overflow_checks, toggles, fnvars, nvicvars>>

\* variant of TIM3Handler that clamps the running countdown to the new target
TIM3HandlerClamp(sample, limit) ==
    /\ Fires("TIM3", limit)
    /\ SET' = Quantize(sample)
    /\ ELAPSED' = IF ELAPSED > SET' THEN SET' ELSE ELAPSED
    /\ run' = -1
    /\ held' = HeldAfter(ELAPSED', SET')
    /\ UNCHANGED <<pc, elapsed, set, buffer, i, yellow, unmasked, halted,
                   overflow_checks, toggles, fnvars, nvicvars>>

\* fn TIM3() with the ADC returning `sample`; the timer, ADC and pin were
\* stored before the line was unmasked, so the `if let` always matches
TIM3Handler(sample, limit) ==
    /\ Fires("TIM3", limit)
    /\ SET' = Quantize(sample)
    /\ run' = -1
    /\ held' = HeldAfter(ELAPSED, SET')
    /\ UNCHANGED <<ELAPSED, pc, elapsed, set, buffer, i, yellow, unmasked, halted,
                   overflow_checks, toggles, fnvars, nvicvars>>

\* fn TIM3() with any sample the model draws
TIM3(limit) == \E sample \in 0..MaxSample : TIM3Handler(sample, limit)

(****************************** specification ******************************)
Next ==
    \/ Main(BOOLEAN)
    \/ TIM2(MaxUnderflow, MaxBurst)
    \/ EXTI0(MaxBurst)
    \/ TIM3(MaxBurst)

Spec == Init /\ [][Next]_vars

(********************* one more handler run between foreground steps *******)
NextDense ==
    \/ Main(BOOLEAN)
    \/ TIM2(MaxUnderflow, MaxBurst + 1)
    \/ EXTI0(MaxBurst + 1)
    \/ TIM3(MaxBurst + 1)

SpecDense == Init /\ [][NextDense]_vars

(********************* runs in which the sampler never fires ***************)
NextQuiet ==
    \/ Main(BOOLEAN)
    \/ TIM2(MaxUnderflow, MaxBurst)
    \/ EXTI0(MaxBurst)

SpecQuiet == Init /\ [][NextQuiet]_vars

(********************* tick-only runs (no button, no sampler) **************)
\* the display never fails, the button is not pressed, the sampler is silent
NextTick ==
    \/ Main({TRUE})
    \/ TIM2(MaxUnderflow, MaxBurst)

\* main() runs whenever no handler does; TIM2 keeps firing at 1 Hz
SpecTick ==
    /\ Init
    /\ [][NextTick]_vars
    /\ WF_vars(Main({TRUE}))
    /\ WF_vars(TIM2(MaxUnderflow, MaxBurst))

(********************* the render loop after a wrap ************************)
\* A state of Spec (see WrappedInRenderLoop): SET was sampled as 0, the reload
\* stored 0 in ELAPSED, and TIM2 ran before the loop condition was read, in a
\* build without overflow checks.
InitDeep ==
    /\ SET = 0
    /\ ELAPSED = U16Max
    /\ pc = "while_check"
    /\ elapsed = 0
    /\ set = 0
    /\ buffer = <<>>
    /\ i = 0
    /\ yellow = FALSE
    /\ unmasked = {"TIM2", "EXTI0", "TIM3"}
    /\ halted = "run"
    /\ overflow_checks = FALSE
    /\ burst = 1
    /\ run = -1
    /\ held = {}
    /\ toggles = 0
    /\ fn_op = "none"
    /\ fn_in = 0
    /\ fn_out = <<>>
    /\ NvicReset
    /\ grouped = TRUE

\* the loop keeps rendering while TIM2 counts the wrapped value down
NextDeep ==
    \/ RenderLoop({TRUE})
    \/ TIM2(U16Max + 1, MaxBurst)

SpecDeep == InitDeep /\ [][NextDeep]_vars

(********************* the pure functions on their whole domain ************)
InitFn ==
    /\ Boot
    /\ fn_op = "none"
    /\ fn_in \in 0..U16Max
    /\ fn_out = <<>>
    /\ NvicReset
    /\ grouped = TRUE

\* time_digits(fn_in) for any u16
ApplyTimeDigits ==
    /\ fn_op = "none"
    /\ fn_op' = "time_digits"
    /\ fn_out' = time_digits(fn_in)
    /\ UNCHANGED <<SET, ELAPSED, pc, elapsed, set, buffer, i, yellow, unmasked,
                   halted, overflow_checks, burst, run, held, toggles, fn_in,
                   nvicvars>>

\* (sample >> 1) * 60 for any sample of the 6-bit ADC
ApplyQuantize ==
    /\ fn_op = "none"
    /\ fn_in \in 0..AdcMax
    /\ fn_op' = "quantize"
    /\ fn_out' = <<Quantize(fn_in)>>
    /\ UNCHANGED <<SET, ELAPSED, pc, elapsed, set, buffer, i, yellow, unmasked,
                   halted, overflow_checks, burst, run, held, toggles, fn_in,
                   nvicvars>>

NextFn ==
    \/ ApplyTimeDigits
    \/ ApplyQuantize

SpecFn == InitFn /\ [][NextFn]_vars

(********************* instruction level: NVIC and interrupt::free *********)
\* The handlers and main's critical sections step by step: an interrupt is
\* raised (pending bit), dispatched by priority when interrupts are not
\* masked, and its handler masks, reads, writes and unmasks in separate steps.

\* variant of Disable in which free() leaves interrupts as they are
DisableNoop(p) == p

\* interrupt::free: interrupts are masked while the closure runs
Disable(p) == TRUE

\* nvic.set_priority(..): TIM2 = 1, EXTI0 = 3, TIM3 = 2
Priority(line) ==
    CASE line = "TIM2" -> 1
      [] line = "EXTI0" -> 3
      [] line = "TIM3" -> 2

\* the priority the NVIC compares: the whole byte, or its top 4 bits
Urgency(line) == IF grouped THEN Priority(line) \div 16 ELSE Priority(line)

\* position in the vector table, which breaks ties: EXTI0, TIM2, TIM3
IrqOrder == <<"EXTI0", "TIM2", "TIM3">>

Before(a, b) ==
    \E m, n \in 1..Len(IrqOrder) : IrqOrder[m] = a /\ IrqOrder[n] = b /\ m < n

\* pending interrupts the core would take now
Deliverable ==
    {l \in pending \cap unmasked :
        /\ ~primask
        /\ halted # "irq"
        /\ active = <<>> \/ Urgency(l) < Urgency(active[Len(active)])}

Best(line) ==
    /\ line \in Deliverable
    /\ \A m \in Deliverable \ {line} :
        \/ Urgency(line) < Urgency(m)
        \/ Urgency(line) = Urgency(m) /\ Before(line, m)

\* values from which the tick is followed: fewer than `depth` seconds below a
\* target, with 0 taken as 65536 after the wrap
Near(e, depth) ==
    \E s \in 0..AdcMax + 1 :
        LET level == IF s > AdcMax THEN U16Max + 1 ELSE Quantize(s)
        IN  e > level - depth /\ e <= level

fgvars == <<pc, elapsed, set, buffer, i, yellow, unmasked, toggles>>

\* a timer update event or a button edge sets the pending bit
Raise(line, depth, limit) ==
    /\ line \notin pending
    /\ burst < limit
    /\ line = "TIM2" => Near(ELAPSED, depth)
    /\ pending' = pending \cup {line}
    /\ burst' = burst + 1
    /\ UNCHANGED <<SET, ELAPSED, fgvars, halted, overflow_checks, run, held,
                   fnvars, active, primask, hpc, local, cs_pc, fg_tmp, grouped>>

\* exception entry: the most urgent deliverable interrupt preempts
Dispatch(line) ==
    /\ Best(line)
    /\ pending' = pending \ {line}
    /\ active' = Append(active, line)
    /\ hpc' = [hpc EXCEPT ![line] = "free"]
    /\ UNCHANGED <<SET, ELAPSED, fgvars, halted, overflow_checks, burst, run,
                   held, fnvars, primask, local, cs_pc, fg_tmp, grouped>>

\* the innermost handler executes unless a more urgent interrupt preempts it
Running(line, at) ==
    /\ active # <<>>
    /\ active[Len(active)] = line
    /\ hpc[line] = at
    /\ halted # "irq"
    /\ Deliverable = {}

\* free(|cs| { NVIC::unpend(..) (TIM2 and TIM3 only), clear the event flag,
\* and the read of the closure: `value` is what the handler takes
Enter(line, value) ==
    /\ Running(line, "free")
    /\ primask' = Disable(primask)
    /\ pending' = IF line = "EXTI0" THEN pending ELSE pending \ {line}
    /\ local' = [local EXCEPT ![line] = value]
    /\ hpc' = [hpc EXCEPT ![line] = "write"]
    /\ UNCHANGED <<SET, ELAPSED, fgvars, halted, overflow_checks, burst, run,
                   held, fnvars, active, cs_pc, fg_tmp, grouped>>

\* }) and the return from the handler, after the write of the closure
Leave(line) ==
    /\ primask' = FALSE
    /\ active' = SubSeq(active, 1, Len(active) - 1)
    /\ hpc' = [hpc EXCEPT ![line] = "idle"]
    /\ local' = [local EXCEPT ![line] = 0]

\* ELAPSED.borrow(cs).get()
TIM2Read == Enter("TIM2", ELAPSED)

\* ELAPSED.borrow(cs).set(.. - 1)
TIM2Write ==
    /\ Running("TIM2", "write")
    /\ IF local["TIM2"] = 0 /\ overflow_checks
       THEN /\ halted' = "irq"
            /\ UNCHANGED <<ELAPSED, run, held, primask, active, hpc, local>>
       ELSE /\ ELAPSED' = TickElapsed(local["TIM2"])
            /\ halted' = halted
            /\ run' = IF run >= 0 /\ run < SET THEN run + 1 ELSE -1
            /\ held' = HeldAfter(ELAPSED', SET)
            /\ Leave("TIM2")
    /\ UNCHANGED <<SET, fgvars, overflow_checks, burst, fnvars, pending, cs_pc,
                   fg_tmp, grouped>>

\* let timeset = SET.borrow(cs).get()
EXTI0Read == Enter("EXTI0", SET)

\* ELAPSED.borrow(cs).replace(timeset)
EXTI0Write ==
    /\ Running("EXTI0", "write")
    /\ ELAPSED' = ResetElapsed(ELAPSED, local["EXTI0"])
    /\ run' = 0
    /\ held' = HeldAfter(ELAPSED', SET)
    /\ Leave("EXTI0")
    /\ UNCHANGED <<SET, fgvars, halted, overflow_checks, burst, fnvars, pending,
                   cs_pc, fg_tmp, grouped>>

\* let sample = adc.convert(analog, SampleTime::Cycles_480)
TIM3Read == \E sample \in 0..MaxSample : Enter("TIM3", sample)

\* SET.borrow(cs).replace((sample>>1)*60)
TIM3Write ==
    /\ Running("TIM3", "write")
    /\ SET' = Quantize(local["TIM3"])
    /\ run' = -1
    /\ held' = HeldAfter(ELAPSED, SET')
    /\ Leave("TIM3")
    /\ UNCHANGED <<ELAPSED, fgvars, halted, overflow_checks, burst, fnvars,
                   pending, cs_pc, fg_tmp, grouped>>

\* main() executes only while no handler is in service or about to be
FgRuns ==
    /\ halted = "run"
    /\ active = <<>>
    /\ Deliverable = {}

\* free(|cs| and SET.borrow(cs).get() of line 190
ReloadRead ==
    /\ FgRuns
    /\ pc = "reload"
    /\ cs_pc = "none"
    /\ primask' = Disable(primask)
    /\ fg_tmp' = SET
    /\ cs_pc' = "reload"
    /\ burst' = 0
    /\ UNCHANGED <<SET, ELAPSED, fgvars, halted, overflow_checks, run, held,
                   fnvars, pending, active, hpc, local, grouped>>

\* ELAPSED.borrow(cs).set(..) of line 190 and the end of the critical section
ReloadWrite ==
    /\ FgRuns
    /\ cs_pc = "reload"
    /\ Step("reload", "while_check")
    /\ ELAPSED' = fg_tmp
    /\ run' = 0
    /\ toggles' = 0
    /\ primask' = FALSE
    /\ cs_pc' = "none"
    /\ fg_tmp' = 0
    /\ UNCHANGED <<SET, elapsed, set, buffer, i, yellow, unmasked, halted,
                   overflow_checks, held, fnvars, pending, active, hpc, local,
                   grouped>>

\* the other steps of main(): a critical section with a single access to a
\* cell is one step
FgOther(results) ==
    /\ FgRuns
    /\ cs_pc = "none"
    /\ Startup \/ RenderLoop(results) \/ Finale(results)

InitNvic ==
    /\ Boot
    /\ fn_op = "none"
    /\ fn_in = 0
    /\ fn_out = <<>>
    /\ NvicReset
    /\ grouped \in BOOLEAN

Handlers ==
    \/ TIM2Read \/ TIM2Write
    \/ EXTI0Read \/ EXTI0Write
    \/ TIM3Read \/ TIM3Write

Core ==
    \/ \E line \in Lines : Dispatch(line)
    \/ Handlers
    \/ ReloadRead \/ ReloadWrite
    \/ FgOther({TRUE})

NextNvic ==
    \/ \E line \in Lines : Raise(line, MaxBurst, MaxBurst)
    \/ Core

SpecNvic == InitNvic /\ [][NextNvic]_vars

\* the core never stops executing while it has an instruction to execute
SpecNvicFair == SpecNvic /\ WF_vars(Core)

(****************************** properties *********************************)
\* the quantizer ladder {0, 60, ..., 1860}
Ladder == {60 * k : k \in 0..31}

InFinale == pc \in {"blink", "hold", "final_toggle"}

\* C1: a TIM2 run that finds ELAPSED = 0 changes nothing: ELAPSED is still 0
\* afterwards and nothing else happened (no wrap, no panic).
C1_TickNoUnderflow ==
    [][(ELAPSED = 0 /\ TIM2(MaxUnderflow, MaxBurst)) => (ELAPSED' = 0 /\ halted' = halted)]_vars

\* C1 (reached state): the render loop is entered with a wrapped ELAPSED.
WrappedInRenderLoop == InitDeep

\* C2: t consecutive TIM2 runs after ELAPSED was loaded from SET (t <= SET, no
\* button, sampler or reload in between) leave ELAPSED = SET - t; a TIM2 run
\* with ELAPSED > 0 subtracts exactly 1 and leaves SET alone.
C2_TickCountsDown ==
    /\ [](run >= 0 => ELAPSED = SET - run)
    /\ [][(ELAPSED > 0 /\ TIM2(MaxUnderflow, MaxBurst))
            => (ELAPSED' = ELAPSED - 1 /\ SET' = SET)]_vars

\* C2 (reached state): 180 TIM2 runs in a row took ELAPSED from 180 to 0.
C2_Witness == run = DefaultSet /\ SET = DefaultSet /\ ELAPSED = 0

C4_SamplerLeavesElapsed ==
    /\ [][\A sample \in 0..MaxSample :
            TIM3Handler(sample, MaxBurst) =>
                (SET' = (sample \div 2) * 60 /\ ELAPSED' = ELAPSED)]_vars
    /\ [][ELAPSED' # ELAPSED => (TIM2(MaxUnderflow, MaxBurst) \/ EXTI0(MaxBurst) \/ Reload)]_vars

\* C4 (reached state): during the blink the sampler lowered SET from 60 to 0
\* under an ELAPSED of 60, which kept its value.
C4_Witness ==
    /\ pc = "blink"
    /\ burst > 0
    /\ run = -1
    /\ SET = 0
    /\ ELAPSED = 60

\* C5: the pair (elapsed, set) the render loop formats is a pair the shared
\* cells held together at some instant between its two reads.
C5_AtomicSnapshot == pc = "format" => <<elapsed, set>> \in held

\* C6: time_digits(t) = (t / 3600, (t / 60) mod 60, t mod 60) for every u16 t.
C6_TimeDigitsModulo ==
    fn_op = "time_digits" =>
        fn_out = <<fn_in \div 3600, (fn_in \div 60) % 60, fn_in % 60>>

\* C7: the quantizer is monotonic non-decreasing, maps the 6-bit samples onto
\* exactly {0, 60, ..., 1860}, maps 63 to 1860 and never overflows 16 bits.
C7_QuantizerLadder ==
    fn_op = "quantize" =>
        /\ fn_out[1] = (fn_in \div 2) * 60
        /\ fn_out[1] \in Ladder
        /\ \A lower \in 0..fn_in : Quantize(lower) <= fn_out[1]
        /\ \A level \in Ladder : \E sample \in 0..AdcMax : Quantize(sample) = level
        /\ (fn_in = AdcMax => fn_out[1] = 1860)

\* C7 (reached state): sample 63 was quantized to 1860.
C7_Witness == fn_op = "quantize" /\ fn_in = AdcMax /\ fn_out = <<1860>>

\* C8: every frame handed to the display is exactly 64 characters long, and
\* formatting never fails for want of room.
C8_FrameIs64 ==
    /\ pc \in {"write", "final_write"} => Len(buffer) = BufferCap
    /\ ~(pc \in {"format", "final_format"} /\ halted = "main")

\* C9: in the finale the LED is toggled 11 times and is then on, stays on
\* through the hold, is toggled off once before the reload, and main() can
\* always take its next step there, whatever handlers have run.
C9_FinaleRunsToCompletion ==
    /\ pc = "blink" => (toggles = i /\ yellow = (i % 2 = 1))
    /\ pc \in {"hold", "final_toggle"} => (toggles = BlinkCount /\ yellow)
    /\ (pc = "reload" /\ toggles > 0) => (toggles = BlinkCount + 1 /\ ~yellow)
    /\ InFinale => ENABLED Main(BOOLEAN)

\* main() is inside a countdown cycle: past the startup and its first reload
InCycle ==
    /\ pc \notin {"unmask_tim2", "unmask_exti0", "unmask_tim3", "set_default"}
    /\ ~(pc = "reload" /\ toggles = 0)

\* C10: with SET = 180 and only TIM2 running, ELAPSED counts 180 down to 0 tick
\* by tick, main() can always take its next step through the loop, the finale
\* and the reload, and the reload leaves ELAPSED = 180.
C10_CycleCompletes ==
    /\ run >= 0 => ELAPSED = DefaultSet - run
    /\ (pc = "while_check" /\ run = 0) => ELAPSED = DefaultSet
    /\ InCycle => ENABLED Main({TRUE})

StartupPcs == {"unmask_tim2", "unmask_exti0", "unmask_tim3", "set_default"}

\* C14: no handler touches the cells before main() initialises them: through
\* the startup both cells still hold what main() left there, and at the first
\* reload SET = 180, so the first cycle starts with ELAPSED = SET = 180.
C14_InitialisedBeforeHandlers ==
    /\ pc \in StartupPcs => (SET = 0 /\ ELAPSED = 0 /\ halted = "run")
    /\ (pc = "reload" /\ toggles = 0) =>
            (SET = DefaultSet /\ ELAPSED = 0 /\ halted = "run")

\* C15: as long as the sampler never fires, ELAPSED <= SET.
C15_ElapsedAtMostTarget == ELAPSED <= SET

\* C16: a display write that fails halts main(), and once main() is halted it
\* stays halted where it was: no later render, toggle or reload.
C16_FailedWriteHalts ==
    /\ [][(WriteFrame(FALSE) \/ FinalWrite(FALSE)) =>
            (halted' = "main" /\ pc' = pc /\ buffer' = buffer)]_vars
    /\ [][halted # "run" =>
            (halted' # "run" /\ pc' = pc /\ buffer' = buffer /\ yellow' = yellow
             /\ toggles' = toggles /\ i' = i)]_vars

\* C16 (reached state): main() halted on a failed write of a complete frame.
C16_Witness == halted = "main" /\ pc = "write" /\ Len(buffer) = BufferCap

\* C17: every reload stores in ELAPSED the value SET holds at that instant and
\* leaves SET alone, whatever ELAPSED held before.
C17_ReloadTakesCurrentTarget ==
    [][Reload => (ELAPSED' = SET /\ SET' = SET /\ pc' = "while_check")]_vars

\* C17 (reached state): a cycle starts from a SET of 60 that the sampler stored
\* after the default.
C17_Witness ==
    /\ pc = "while_check"
    /\ burst = 0
    /\ run = 0
    /\ toggles = 0
    /\ SET = 60
    /\ ELAPSED = 60

\* the eight characters hh:mm:ss of `seconds`, minutes reduced modulo 60
Clock(seconds) ==
    Fmt02(seconds \div 3600) \o <<":">> \o Fmt02((seconds \div 60) % 60)
        \o <<":">> \o Fmt02(seconds % 60)

\* C18: the final frame is formatted once, from 0 and the SET read just before,
\* whatever ELAPSED holds; it is the one frame written between the loop and
\* the blink.
C18_FinalFrameShowsZero ==
    /\ [][FinalReadSet => set' = SET]_vars
    /\ [][FinalFormat =>
            /\ Len(buffer') = BufferCap
            /\ SubSeq(buffer', 5, 12) = Clock(0)
            /\ SubSeq(buffer', 53, 60) = Clock(set)]_vars
    /\ [][(\E ok \in BOOLEAN : FinalWrite(ok)) =>
            (pc = "final_write" /\ SubSeq(buffer, 5, 12) = Clock(0))]_vars

\* C18 (reached state): the final frame is ready to be written while ELAPSED
\* is no longer 0.
C18_Witness ==
    /\ pc = "final_write"
    /\ ELAPSED > 0
    /\ Len(buffer) = BufferCap
    /\ SubSeq(buffer, 5, 12) = Clock(0)

\* C19: SET is always one of 0, 60, ..., 1860.
C19_TargetOnLadder == SET \in Ladder

\* C19 (reached state): the sampler wrote SET last, and not the value 0 or 180.
C19_Witness == SET = 60 /\ pc = "read_set"

\* C20: the LED is on only between the first blink toggle and the final
\* toggle; in the startup, at the reload and in the render loop it is off.
C20_LedOffWhileCounting ==
    /\ yellow => (InFinale /\ toggles >= 1 /\ toggles <= BlinkCount)
    /\ (pc = "reload" /\ toggles > 0) => toggles = BlinkCount + 1

\* C20 (reached state): a second cycle starts, after a whole finale, with the
\* LED off.
C20_Witness == pc = "reload" /\ toggles = BlinkCount + 1 /\ ~yellow

\* contexts between the read and the write of their critical section
Inside == {l \in Lines : hpc[l] = "write"}

\* C12: critical sections exclude each other: at most one of the handlers and
\* main() is between the read and the write of its closure, interrupts are
\* masked exactly then, and the value it read is still the value of the cell
\* when it writes (TIM2 decrements the current ELAPSED, EXTI0 and the reload
\* store the current SET).
C12_NoLostUpdate ==
    /\ Cardinality(Inside) + (IF cs_pc = "reload" THEN 1 ELSE 0) <= 1
    /\ primask <=> (Inside # {} \/ cs_pc = "reload")
    /\ hpc["TIM2"] = "write" => local["TIM2"] = ELAPSED
    /\ hpc["EXTI0"] = "write" => local["EXTI0"] = SET
    /\ cs_pc = "reload" => fg_tmp = SET

\* C12 (reached state): the sampler's interrupt is raised while main() is
\* between the read and the write of its reload, and has to wait.
C12_Witness ==
    /\ cs_pc = "reload"
    /\ primask
    /\ "TIM3" \in pending \cap unmasked

\* C13: a pending, unmasked button interrupt is never stuck: the core can
\* still execute (dispatch, a handler step or a step of main()), which is what
\* brings the EXTI0 handler into service.
C13_ResetNeverStarved ==
    "EXTI0" \in pending \cap unmasked => ENABLED Core

\* C13 (what remains true): in a build whose arithmetic wraps, a pending,
\* unmasked button interrupt reaches its handler, with at most MaxBurst new
\* interrupts raised between two steps of main().
ResetServedWhenWrapping ==
    ("EXTI0" \in pending \cap unmasked /\ ~overflow_checks)
        ~> (hpc["EXTI0"] = "write")

====
